---- MODULE Spec2Model ----
(***************************************************************************)
(* A model of risk_pipeline.py: the coordinate-to-region cache fronting    *)
(* the reverse-geocoding provider (get_region_cached, map_all_regions),    *)
(* the per-CIF risk classifier (compute_risk_scoring) and the control flow *)
(* of main_pipeline.                                                       *)
(*                                                                         *)
(* Coordinates are integers counting 10^-6 degree, so that rounding to 5   *)
(* decimals is something the model computes.  Python values that are not   *)
(* strings are encoded as marked strings: None is "<None>".                *)
(***************************************************************************)
EXTENDS Integers, Sequences, FiniteSets, TLC

VARIABLES
    cache,      \* the region cache dict: rounded key -> region, or Absent
    last,       \* what the latest get_region_cached call did
    firstAny,   \* history: rounded key -> region returned by the first call with it
    firstValid, \* history: the same, among calls with non-null non-zero coordinates
    failed,     \* history: keys whose provider lookup raised or came back empty
    pc,         \* main_pipeline's position
    cols,       \* columns of the production export
    prod,       \* rows of the production export
    df,         \* df_join: the rows kept by filter_production_by_deviceid
    idx,        \* rows of df already resolved by map_all_regions
    region,     \* the REGION column built so far
    file,       \* region_cache.pkl on disk
    file0,      \* history: region_cache.pkl as the run found it
    loads,      \* calls of load_region_cache
    saves,      \* calls of save_region_cache
    err,        \* the message of the exception that ended the run
    classified, \* compute_risk_scoring has been entered
    lookups,    \* history: the provider invocations of the run, in order
    frame,      \* the data frame handed to compute_risk_scoring
    hasDev,     \* whether that frame has a DEVICE_ID column
    results     \* the rows compute_risk_scoring returned

resolverVars == <<cache, last, firstAny, firstValid, failed>>
pipelineVars == <<pc, cols, prod, df, idx, region, file, file0, loads, saves, err,
                  classified, lookups>>
scoringVars == <<frame, hasDev, results>>
vars == <<cache, last, firstAny, firstValid, failed, pc, cols, prod, df, idx, region,
          file, file0, loads, saves, err, classified, lookups, frame, hasDev, results>>

----------------------------------------------------------------------------
(* Bounds of the model. *)

\* How many of the five region fields one provider address carries at most.
MaxFields == 2
\* How many rows the production export has at most.
MaxRows == 2
\* How many required columns the production export lacks at most.
MaxMissing == 1
\* How many rows the frame handed to compute_risk_scoring has at most.
MaxScoreRows == 2

----------------------------------------------------------------------------
(* Values. *)

NoneVal == "<None>"
Unknown == "Unknown"
Absent == "<absent>"
NoCall == "<no call>"

Num(x) == [k |-> "num", v |-> x]
NaN == [k |-> "nan", v |-> 0]
PyNone == [k |-> "none", v |-> 0]

\* pd.isnull(x): true of NaN and of None.
IsNull(x) == x.k # "num"

\* round(x, 5) of a coordinate given in 10^-6 degree, in 10^-6 degree.  The raw
\* values used below have no last digit 5, where the result depends on the
\* binary representation of the float.
Round5(x) == LET r == x % 10 IN IF r < 5 THEN x - r ELSE x - r + 10

RawLats == {0, 2, 4, 12}
RawLons == {0, 7}
Lats == {Num(x) : x \in RawLats} \cup {NaN, PyNone}
Lons == {Num(x) : x \in RawLons} \cup {NaN, PyNone}
KeySet == {<<Round5(a), Round5(b)>> : a \in RawLats, b \in RawLons}
NoKey == <<-1, -1>>
EmptyCache == [k \in KeySet |-> Absent]

----------------------------------------------------------------------------
(* The geocoding provider's answers. *)

Fields == <<"city", "town", "county", "state", "country">>
FieldSet == {Fields[i] : i \in 1..Len(Fields)}
Missing == "<missing>"
PlaceOf == [city |-> "Jakarta", town |-> "Depok", county |-> "Bogor",
            state |-> "Jawa Barat", country |-> "Indonesia"]
\* An address: each field is missing, present and empty, or present with a name.
Addresses ==
    {a \in [FieldSet -> {Missing, "", "x"}] :
        Cardinality({f \in FieldSet : a[f] # Missing}) <= MaxFields}
AddrOf(a) == [f \in FieldSet |-> IF a[f] = "x" THEN PlaceOf[f] ELSE a[f]]
NoAddress == [f \in FieldSet |-> Missing]
\* kind: "error" and "timeout" are raised by geolocator.reverse; "none" is a None
\* location; "noaddr" a location whose raw has no (or an empty) address; "addr"
\* a location with a non-empty address, which may hold none of the five fields.
Responses ==
    {[kind |-> k, addr |-> NoAddress] : k \in {"error", "timeout", "none", "noaddr"}}
    \cup {[kind |-> "addr", addr |-> AddrOf(a)] : a \in Addresses}
NoResponse == [kind |-> "unused", addr |-> NoAddress]

\* dict.get(f): None when the field is missing.
Get(addr, f) == IF addr[f] = Missing THEN NoneVal ELSE addr[f]
Truthy(v) == v # NoneVal /\ v # ""
PyOr(a, b) == IF Truthy(a) THEN a ELSE b

MutExtractRegion(addr) ==
    PyOr(PyOr(PyOr(PyOr(Get(addr, "town"), Get(addr, "city")), Get(addr, "county")),
              Get(addr, "state")), Get(addr, "country"))
\* address.get('city') or address.get('town') or ... or address.get('country')
ExtractRegion(addr) ==
    PyOr(PyOr(PyOr(PyOr(Get(addr, "city"), Get(addr, "town")), Get(addr, "county")),
              Get(addr, "state")), Get(addr, "country"))

----------------------------------------------------------------------------
(* get_region_cached(lat, lon, geolocator, cache, delay): what one call does, *)
(* given the cache c and the answer resp the provider would give.             *)

Outcome(ret, c, key, invoked, slept, read, raised) ==
    [ret |-> ret, cache |-> c, key |-> key, invoked |-> invoked, slept |-> slept,
     read |-> read, raised |-> raised]

MutLookup(key, c, resp) ==
    IF resp.kind \in {"error", "timeout"}
    THEN Outcome(Unknown, c, key, TRUE, FALSE, FALSE, "")
    ELSE IF resp.kind = "addr"
    THEN LET r == ExtractRegion(resp.addr)
         IN Outcome(r, [c EXCEPT ![key] = r], key, TRUE, TRUE, FALSE, "")
    ELSE Outcome(Unknown, [c EXCEPT ![key] = Unknown], key, TRUE, TRUE, FALSE, "")
\* The try block: reverse, sleep, and the extraction; the except clause.
Lookup(key, c, resp) ==
    IF resp.kind \in {"error", "timeout"}
    THEN Outcome(Unknown, [c EXCEPT ![key] = Unknown], key, TRUE, FALSE, FALSE, "")
    ELSE IF resp.kind = "addr"
    THEN LET r == ExtractRegion(resp.addr)
         IN Outcome(r, [c EXCEPT ![key] = r], key, TRUE, TRUE, FALSE, "")
    ELSE Outcome(Unknown, [c EXCEPT ![key] = Unknown], key, TRUE, TRUE, FALSE, "")

\* The rounded coordinate of a call, when both parts are numbers.  round(nan, 5)
\* is nan, which equals no key.
RoundedOf(lat, lon) ==
    IF IsNull(lat) \/ IsNull(lon) THEN NoKey ELSE <<Round5(lat.v), Round5(lon.v)>>

MutGetRegionCached(lat, lon, c, resp) ==
    IF lat.k = "none" \/ lon.k = "none"
    THEN Outcome(NoneVal, c, NoKey, FALSE, FALSE, FALSE, "TypeError")
    ELSE LET key == RoundedOf(lat, lon)
         IN IF IsNull(lat) \/ IsNull(lon) \/ lat.v = 0 \/ lon.v = 0
            THEN Outcome(Unknown, c, key, FALSE, FALSE, FALSE, "")
            ELSE Lookup(key, c, resp)
GetRegionCached(lat, lon, c, resp) ==
    IF lat.k = "none" \/ lon.k = "none"
    THEN \* round(None, 5) raises TypeError before the null test is reached
         Outcome(NoneVal, c, NoKey, FALSE, FALSE, FALSE, "TypeError")
    ELSE LET key == RoundedOf(lat, lon)
         IN IF IsNull(lat) \/ IsNull(lon) \/ lat.v = 0 \/ lon.v = 0
            THEN Outcome(Unknown, c, key, FALSE, FALSE, FALSE, "")
            ELSE IF c[key] # Absent
            THEN Outcome(c[key], c, key, FALSE, FALSE, TRUE, "")
            ELSE Lookup(key, c, resp)

----------------------------------------------------------------------------
(* Calls of get_region_cached on one cache, with any arguments. *)

IsValid(lat, lon) == ~IsNull(lat) /\ ~IsNull(lon) /\ lat.v # 0 /\ lon.v # 0
Failures == {"error", "timeout", "none", "noaddr"}

NoLast ==
    [called |-> FALSE, lat |-> NaN, lon |-> NaN, resp |-> NoResponse, ret |-> NoneVal,
     key |-> NoKey, invoked |-> FALSE, slept |-> FALSE, read |-> FALSE, raised |-> "",
     before |-> EmptyCache, repeatAny |-> FALSE, repeatValid |-> FALSE,
     failedBefore |-> FALSE]

\* region_cache.pkl: absent, unreadable, or a pickled mapping.
FileAbsent == [state |-> "absent", map |-> EmptyCache]
FileCorrupt == [state |-> "corrupt", map |-> EmptyCache]
Pickled(c) == [state |-> "ok", map |-> c]

PipelineIdle ==
    /\ pc = "idle" /\ cols = {} /\ prod = <<>> /\ df = <<>> /\ idx = 0
    /\ region = <<>> /\ file = FileAbsent /\ file0 = FileAbsent /\ loads = 0
    /\ saves = 0 /\ err = <<>> /\ classified = FALSE /\ lookups = <<>>
ScoringIdle == frame = <<>> /\ hasDev = TRUE /\ results = {}
ResolverIdle ==
    /\ last = NoLast /\ firstAny = [k \in KeySet |-> NoCall]
    /\ firstValid = [k \in KeySet |-> NoCall] /\ failed = {}

InitResolver == cache = EmptyCache /\ ResolverIdle /\ PipelineIdle /\ ScoringIdle

Call ==
    \E lat \in Lats, lon \in Lons :
        LET probe == GetRegionCached(lat, lon, cache, NoResponse)
        IN \E resp \in (IF probe.invoked THEN Responses ELSE {NoResponse}) :
            LET o == GetRegionCached(lat, lon, cache, resp)
                rk == RoundedOf(lat, lon)
                done == o.raised = "" /\ rk # NoKey
                valid == IsValid(lat, lon)
            IN /\ cache' = o.cache
               /\ last' = [called |-> TRUE, lat |-> lat, lon |-> lon, resp |-> resp,
                           ret |-> o.ret, key |-> o.key, invoked |-> o.invoked,
                           slept |-> o.slept, read |-> o.read, raised |-> o.raised,
                           before |-> cache,
                           repeatAny |-> rk # NoKey /\ firstAny[rk] # NoCall,
                           repeatValid |-> valid /\ firstValid[rk] # NoCall,
                           failedBefore |-> rk \in failed]
               /\ firstAny' = IF done /\ firstAny[rk] = NoCall
                              THEN [firstAny EXCEPT ![rk] = o.ret] ELSE firstAny
               /\ firstValid' = IF done /\ valid /\ firstValid[rk] = NoCall
                                THEN [firstValid EXCEPT ![rk] = o.ret] ELSE firstValid
               /\ failed' = IF o.invoked /\ resp.kind \in Failures
                            THEN failed \cup {o.key} ELSE failed
               /\ UNCHANGED <<pipelineVars, scoringVars>>

NextResolver == Call
SpecResolver == InitResolver /\ [][NextResolver]_vars

----------------------------------------------------------------------------
(* Claims about get_region_cached, under SpecResolver. *)

LastNullOrZero ==
    \/ IsNull(last.lat) \/ IsNull(last.lon)
    \/ last.lat.v = 0 \/ last.lon.v = 0
NeverOverwritten == \A k \in KeySet : last.before[k] # Absent => cache[k] = last.before[k]

\* C1, as stated: a call whose rounded coordinate equals that of an earlier call
\* returns what the first such call returned and does not invoke the provider,
\* and no cache entry is ever overwritten.
C1_SameRoundedSameRegion ==
    /\ (last.called /\ last.repeatAny) =>
            /\ last.ret = firstAny[RoundedOf(last.lat, last.lon)]
            /\ ~last.invoked
    /\ NeverOverwritten

\* C1, amended: among calls whose latitude and longitude are both non-null and
\* non-zero, a call whose rounded coordinate equals that of an earlier call
\* returns what the first such call returned and does not invoke the provider,
\* and no cache entry is ever overwritten.
C1_SameRoundedSameRegionNonZero ==
    /\ (last.called /\ last.repeatValid) =>
            /\ last.ret = firstValid[last.key]
            /\ ~last.invoked
    /\ NeverOverwritten
\* A second non-zero call with an already used key, answered with a place name.
C1_Witness ==
    /\ last.called /\ last.repeatValid /\ last.read
    /\ last.ret = "Jakarta" /\ last.lat = Num(4)

\* C2: a call whose latitude or longitude is null or exactly 0 returns "Unknown",
\* reads nothing from the cache, does not invoke the provider, leaves the cache
\* as it was and raises nothing.
C2_NullOrZeroIsUnknown ==
    (last.called /\ LastNullOrZero) =>
        /\ last.raised = ""
        /\ last.ret = Unknown
        /\ ~last.read /\ ~last.invoked
        /\ cache = last.before

\* C5: a provider lookup that raises, times out or comes back empty raises
\* nothing to the caller, returns "Unknown" and stores "Unknown" under the key;
\* the entry stays, and a later call with that key does not invoke the provider.
C5_FailureIsCachedUnknown ==
    /\ (last.called /\ last.invoked /\ last.resp.kind \in Failures) =>
            /\ last.raised = ""
            /\ last.ret = Unknown
            /\ cache[last.key] = Unknown
    /\ \A k \in failed : cache[k] = Unknown
    /\ (last.called /\ last.failedBefore) => ~last.invoked
\* A later non-zero call with the key of a failed lookup, served from the cache.
C5_Witness ==
    /\ last.called /\ last.failedBefore /\ IsValid(last.lat, last.lon)
    /\ last.read /\ last.ret = Unknown

\* C7: every invocation of the provider is followed by the pacing delay before
\* get_region_cached returns.
C7_DelayAfterEveryInvocation == (last.called /\ last.invoked) => last.slept

\* The first field, in the order of Fields, whose value is not in skip.
FirstField(addr, skip) ==
    LET i == CHOOSE i \in 1..Len(Fields) :
                 /\ addr[Fields[i]] \notin skip
                 /\ \A j \in 1..(i - 1) : addr[Fields[j]] \in skip
    IN addr[Fields[i]]
LastAddressed == last.called /\ last.invoked /\ last.resp.kind = "addr"

\* C10, as stated: on an address with one of the five fields present, the call
\* returns and caches the value of the first present field in the order city,
\* town, county, state, country.
C10_FirstPresentField ==
    (LastAddressed /\ \E f \in FieldSet : last.resp.addr[f] # Missing) =>
        /\ last.ret = FirstField(last.resp.addr, {Missing})
        /\ cache[last.key] = FirstField(last.resp.addr, {Missing})

\* C10, amended: on an address with one of the five fields present and
\* non-empty, the call returns and caches the value of the first field, in that
\* order, that is present and non-empty.
C10_FirstNonEmptyField ==
    (LastAddressed /\ \E f \in FieldSet : last.resp.addr[f] \notin {Missing, ""}) =>
        /\ last.ret = FirstField(last.resp.addr, {Missing, ""})
        /\ cache[last.key] = FirstField(last.resp.addr, {Missing, ""})
\* A lower-preference field is used: no city, no town, a county and a state.
C10_Witness ==
    /\ LastAddressed
    /\ last.resp.addr["county"] = "Bogor" /\ last.resp.addr["state"] = "Jawa Barat"
    /\ last.ret = "Bogor" /\ cache[last.key] = "Bogor"

----------------------------------------------------------------------------
(* main_pipeline, step by step. *)

\* What the steps of main_pipeline leave alone.
otherVars == <<last, firstAny, firstValid, failed, frame, hasDev, results>>

Wajib == <<"DEVICE_ID", "CIF", "LATITUDE", "LONGITUDE", "CREATED_TIME">>
WajibSet == {Wajib[i] : i \in 1..Len(Wajib)}
\* The DEVICE_ID set load_threatcast returns.
ThreatIds == {"d1"}
InputRegion == "Depok"
RowCoords == {<<NaN, Num(7)>>, <<Num(0), Num(7)>>, <<Num(2), Num(7)>>,
              <<Num(4), Num(7)>>, <<Num(12), Num(7)>>}
ProdRows == {[dev |-> d, lat |-> c[1], lon |-> c[2], reg |-> InputRegion] :
                d \in {"d1", "d2"}, c \in RowCoords}
ProdFrames == UNION {[1..n -> ProdRows] : n \in 1..MaxRows}
ColumnSets ==
    {cs \in SUBSET (WajibSet \cup {"REGION"}) : Cardinality(WajibSet \ cs) <= MaxMissing}
FileStates ==
    {FileAbsent, FileCorrupt, Pickled([EmptyCache EXCEPT ![<<0, 10>>] = "Jakarta"])}

Abort(e) ==
    /\ pc' = "aborted"
    /\ err' = e
KeyError(col) == <<"KeyError", col>>

InitPipeline ==
    /\ pc = "start"
    /\ cols \in ColumnSets
    /\ prod \in ProdFrames
    /\ \E i \in 1..Len(prod) : prod[i].dev \in ThreatIds
    /\ file \in FileStates
    /\ file0 = file
    /\ df = <<>> /\ idx = 0 /\ region = <<>> /\ loads = 0 /\ saves = 0
    /\ err = <<>> /\ classified = FALSE /\ lookups = <<>>
    /\ cache = EmptyCache /\ ResolverIdle /\ ScoringIdle

\* load_threatcast and load_production.
LoadInputs ==
    /\ pc = "start"
    /\ pc' = "loaded"
    /\ UNCHANGED <<otherVars, cache, cols, prod, df, idx, region, file, file0, loads, saves, err,
                   classified, lookups>>

MutValidate ==
    /\ pc = "loaded"
    /\ LET checked == {Wajib[i] : i \in 1..(Len(Wajib) - 1)}
           missing == {i \in 1..Len(Wajib) : Wajib[i] \in checked /\ Wajib[i] \notin cols}
       IN IF missing = {}
          THEN pc' = "validated" /\ err' = err
          ELSE LET i == CHOOSE i \in missing : \A j \in missing : i <= j
               IN Abort(<<"AssertionError", "Missing required column", Wajib[i]>>)
    /\ UNCHANGED <<otherVars, cache, cols, prod, df, idx, region, file, file0, loads, saves,
                   classified, lookups>>
\* for w in wajib: assert w in df_prod.columns
Validate ==
    /\ pc = "loaded"
    /\ LET missing == {i \in 1..Len(Wajib) : Wajib[i] \notin cols}
       IN IF missing = {}
          THEN pc' = "validated" /\ err' = err
          ELSE LET i == CHOOSE i \in missing : \A j \in missing : i <= j
               IN Abort(<<"AssertionError", "Missing required column", Wajib[i]>>)
    /\ UNCHANGED <<otherVars, cache, cols, prod, df, idx, region, file, file0, loads, saves,
                   classified, lookups>>

\* filter_production_by_deviceid reads DEVICE_ID, then CIF.
FilterProduction ==
    /\ pc = "validated"
    /\ IF "DEVICE_ID" \notin cols THEN Abort(KeyError("DEVICE_ID")) /\ df' = df
       ELSE IF "CIF" \notin cols THEN Abort(KeyError("CIF")) /\ df' = df
       ELSE /\ df' = SelectSeq(prod, LAMBDA r : r.dev \in ThreatIds)
            /\ pc' = "joined" /\ err' = err
    /\ UNCHANGED <<otherVars, cache, cols, prod, idx, region, file, file0, loads, saves,
                   classified, lookups>>

\* load_region_cache: only FileNotFoundError is handled.
LoadRegionCache ==
    /\ pc = "joined"
    /\ loads' = loads + 1
    /\ IF file.state = "corrupt"
       THEN Abort(<<"UnpicklingError">>) /\ cache' = cache
       ELSE /\ cache' = IF file.state = "absent" THEN EmptyCache ELSE file.map
            /\ pc' = "cacheLoaded" /\ err' = err
    /\ UNCHANGED <<otherVars, cols, prod, df, idx, region, file, file0, saves, classified, lookups>>

\* if 'REGION' not in df_join.columns: map_all_regions starts.
BeginMapping ==
    /\ pc = "cacheLoaded"
    /\ "REGION" \notin cols
    /\ pc' = "mapping"
    /\ UNCHANGED <<otherVars, cache, cols, prod, df, idx, region, file, file0, loads, saves, err,
                   classified, lookups>>

MutSkipMapping ==
    /\ pc = "cacheLoaded"
    /\ "REGION" \in cols
    /\ region' = [i \in 1..Len(df) |-> df[i].reg]
    /\ file' = Pickled(cache)
    /\ saves' = saves + 1
    /\ pc' = "regionDone"
    /\ UNCHANGED <<otherVars, cache, cols, prod, df, idx, file0, loads, err, classified, lookups>>
\* else: the REGION column of the input is kept.
SkipMapping ==
    /\ pc = "cacheLoaded"
    /\ "REGION" \in cols
    /\ region' = [i \in 1..Len(df) |-> df[i].reg]
    /\ pc' = "regionDone"
    /\ UNCHANGED <<otherVars, cache, cols, prod, df, idx, file, file0, loads, saves, err,
                   classified, lookups>>

MutMapRow ==
    /\ pc = "mapping"
    /\ idx < Len(df)
    /\ LET row == df[idx + 1]
           probe == GetRegionCached(row.lat, row.lon, cache, NoResponse)
       IN \E resp \in (IF probe.invoked THEN Responses ELSE {NoResponse}) :
            LET o == GetRegionCached(row.lat, row.lon, cache, resp)
            IN /\ region' = Append(region, o.ret)
               /\ idx' = idx + 1
               /\ lookups' = IF o.invoked
                             THEN Append(lookups, [row |-> idx + 1, key |-> o.key,
                                                   ret |-> o.ret])
                             ELSE lookups
    /\ UNCHANGED <<otherVars, cache, pc, err, cols, prod, df, file, file0, loads, saves, classified>>
\* One row of df.progress_apply(lambda row: get_region_cached(...), axis=1).
MapRow ==
    /\ pc = "mapping"
    /\ idx < Len(df)
    /\ IF "LATITUDE" \notin cols
       THEN Abort(KeyError("LATITUDE")) /\ UNCHANGED <<cache, region, idx, lookups>>
       ELSE IF "LONGITUDE" \notin cols
       THEN Abort(KeyError("LONGITUDE")) /\ UNCHANGED <<cache, region, idx, lookups>>
       ELSE LET row == df[idx + 1]
                probe == GetRegionCached(row.lat, row.lon, cache, NoResponse)
            IN \E resp \in (IF probe.invoked THEN Responses ELSE {NoResponse}) :
                 LET o == GetRegionCached(row.lat, row.lon, cache, resp)
                 IN IF o.raised # ""
                    THEN Abort(<<o.raised>>) /\ UNCHANGED <<cache, region, idx, lookups>>
                    ELSE /\ cache' = o.cache
                         /\ region' = Append(region, o.ret)
                         /\ idx' = idx + 1
                         /\ lookups' = IF o.invoked
                                       THEN Append(lookups, [row |-> idx + 1,
                                                             key |-> o.key, ret |-> o.ret])
                                       ELSE lookups
                         /\ UNCHANGED <<pc, err>>
    /\ UNCHANGED <<otherVars, cols, prod, df, file, file0, loads, saves, classified>>

\* KeyboardInterrupt between two rows: it leaves main_pipeline, nothing handles it.
Interrupt ==
    /\ pc = "mapping"
    /\ idx < Len(df)
    /\ pc' = "interrupted"
    /\ err' = <<"KeyboardInterrupt">>
    /\ UNCHANGED <<otherVars, cache, cols, prod, df, idx, region, file, file0, loads, saves,
                   classified, lookups>>

\* df['REGION'] = ...; return df
EndMapping ==
    /\ pc = "mapping"
    /\ idx = Len(df)
    /\ pc' = "mapped"
    /\ UNCHANGED <<otherVars, cache, cols, prod, df, idx, region, file, file0, loads, saves, err,
                   classified, lookups>>

\* save_region_cache(region_cache)
SaveRegionCache ==
    /\ pc = "mapped"
    /\ file' = Pickled(cache)
    /\ saves' = saves + 1
    /\ pc' = "regionDone"
    /\ UNCHANGED <<otherVars, cache, cols, prod, df, idx, region, file0, loads, err, classified,
                   lookups>>

\* compute_risk_scoring(df_join): it reads CREATED_TIME first.
ScoreStep ==
    /\ pc = "regionDone"
    /\ classified' = TRUE
    /\ IF "CREATED_TIME" \notin cols
       THEN Abort(KeyError("CREATED_TIME"))
       ELSE pc' = "scored" /\ err' = err
    /\ UNCHANGED <<otherVars, cache, cols, prod, df, idx, region, file, file0, loads, saves, lookups>>

\* cohort_analysis, visualize_risk_region, export_heatmap, the summary, the export.
Report ==
    /\ pc = "scored"
    /\ pc' = "done"
    /\ UNCHANGED <<otherVars, cache, cols, prod, df, idx, region, file, file0, loads, saves, err,
                   classified, lookups>>

NextPipeline ==
    \/ LoadInputs
    \/ Validate
    \/ FilterProduction
    \/ LoadRegionCache
    \/ BeginMapping
    \/ SkipMapping
    \/ MapRow
    \/ Interrupt
    \/ EndMapping
    \/ SaveRegionCache
    \/ ScoreStep
    \/ Report
SpecPipeline == InitPipeline /\ [][NextPipeline]_vars

----------------------------------------------------------------------------
(* Claims about map_all_regions and main_pipeline, under SpecPipeline. *)

AfterMapping == pc \in {"mapped", "regionDone", "scored", "done"} /\ "REGION" \notin cols
KeyOfRow(r) == RoundedOf(r.lat, r.lon)

\* C4: once map_all_regions has run every record has a region that is not None,
\* and no cache entry is None.
C4_EveryRegionNonNull ==
    /\ AfterMapping =>
            /\ Len(region) = Len(df)
            /\ \A i \in 1..Len(region) : region[i] # NoneVal
    /\ \A k \in KeySet : cache[k] # NoneVal

\* C6: with a required column missing the run never gets past the validation:
\* the cache is not loaded, the provider not invoked, nothing classified, the
\* cache file not written, and the run ends with an error naming a missing column.
C6_MissingColumnFailsFast ==
    (WajibSet \ cols # {}) =>
        /\ pc \in {"start", "loaded", "aborted"}
        /\ loads = 0 /\ idx = 0 /\ lookups = <<>> /\ ~classified
        /\ saves = 0 /\ file = file0
        /\ pc = "aborted" =>
                /\ err[1] = "AssertionError"
                /\ err[3] \in WajibSet \ cols
\* A run aborted for its missing LATITUDE column.
C6_Witness ==
    /\ pc = "aborted" /\ "LATITUDE" \notin cols
    /\ err = <<"AssertionError", "Missing required column", "LATITUDE">>

\* C8: without a REGION column the cache is loaded once, before the first record
\* is resolved, and saved exactly once, after the last one, the saved mapping
\* being the in-memory cache; with a REGION column no record is resolved, the
\* provider is not invoked and the cache file is not written.
C8_LoadOnceSaveOnce ==
    /\ loads <= 1 /\ saves <= 1
    /\ idx > 0 => loads = 1
    /\ saves = 1 => ("REGION" \notin cols /\ idx = Len(df) /\ file = Pickled(cache))
    /\ (pc \in {"regionDone", "scored", "done"} /\ "REGION" \notin cols) =>
            (loads = 1 /\ saves = 1)
    /\ "REGION" \in cols => (idx = 0 /\ lookups = <<>> /\ saves = 0 /\ file = file0)
\* A finished run that resolved two records by two lookups and saved them.
C8_Witness ==
    /\ pc = "done" /\ "REGION" \notin cols /\ saves = 1 /\ idx = 2
    /\ Len(lookups) = 2 /\ file = Pickled(cache) /\ file # file0

----------------------------------------------------------------------------
(* compute_risk_scoring(df). *)

NaNDev == "<NaN>"
NaT == [k |-> "nat", m |-> 0]
Period(m) == [k |-> "period", m |-> m]
\* CREATED_TIME values: timestamps (month, day) and text that does not parse.
Timestamp(m, d) == [k |-> "ts", m |-> m, d |-> d]
BadTime == [k |-> "bad", m |-> 0, d |-> 0]
Times == {BadTime, Timestamp(1, 1), Timestamp(1, 2), Timestamp(2, 1)}
\* pd.to_datetime(errors='coerce') and .dt.to_period('M')
ToPeriod(t) == IF t.k = "ts" THEN Period(t.m) ELSE NaT

\* The values of a REGION column, in sorted order.
RegionOrder == <<"Depok", "Jakarta">>
ScoreRows ==
    {[cif |-> c, dev |-> d, time |-> t, reg |-> r] :
        c \in {"c1", "c2"}, d \in {"d1", "d2", NaNDev}, t \in Times,
        r \in {NoneVal, "Depok"}}
ScoreFrames == UNION {[1..n -> ScoreRows] : n \in 1..MaxScoreRows}

\* The rows of one CIF group.
Group(f, cif) == {i \in 1..Len(f) : f[i].cif = cif}
\* group['BULAN_TAHUN'].nunique(): NaT is not counted.
MonthsOf(f, g) == Cardinality({ToPeriod(f[i].time) : i \in g} \ {NaT})
\* group['DEVICE_ID'].nunique() if 'DEVICE_ID' in group else 1: NaN is not counted.
DevicesOf(f, g, withDev) ==
    IF withDev THEN Cardinality({f[i].dev : i \in g} \ {NaNDev}) ELSE 1

MutClassify(months, devices) ==
    IF months = 1 /\ devices = 1 THEN [score |-> 1, label |-> "Transient"]
    ELSE IF months > 1 /\ devices = 1 THEN [score |-> 2, label |-> "Persistent"]
    ELSE IF months = 1 /\ devices > 1 THEN [score |-> 2, label |-> "Multi-device"]
    ELSE IF months > 1 /\ devices > 1 THEN [score |-> 3, label |-> "Critical"]
    ELSE [score |-> 2, label |-> "Multi-device"]
\* The if/elif chain on (months, devices).
Classify(months, devices) ==
    IF months = 1 /\ devices = 1 THEN [score |-> 1, label |-> "Transient"]
    ELSE IF months > 1 /\ devices = 1 THEN [score |-> 2, label |-> "Persistent"]
    ELSE IF months = 1 /\ devices > 1 THEN [score |-> 2, label |-> "Multi-device"]
    ELSE IF months > 1 /\ devices > 1 THEN [score |-> 3, label |-> "Critical"]
    ELSE [score |-> 1, label |-> "Transient"]

\* group['REGION'].mode()[0] if group['REGION'].notna().any() else "Unknown":
\* the most frequent non-null value, the first in sorted order among equals.
ModeRegion(f, g) ==
    LET count(r) == Cardinality({i \in g : f[i].reg = r})
        ranks == {n \in 1..Len(RegionOrder) : count(RegionOrder[n]) > 0}
    IN IF ranks = {} THEN Unknown
       ELSE LET best == CHOOSE n \in ranks :
                            \A o \in ranks :
                                \/ count(RegionOrder[n]) > count(RegionOrder[o])
                                \/ /\ count(RegionOrder[n]) = count(RegionOrder[o])
                                   /\ n <= o
            IN RegionOrder[best]

\* group['COHORT'].iloc[0]: the month of the group's earliest timestamp, or NaT.
CohortOf(f, g) ==
    LET valid == {i \in g : f[i].time.k = "ts"}
    IN IF valid = {} THEN NaT
       ELSE LET first == CHOOSE i \in valid :
                             \A j \in valid :
                                 \/ f[i].time.m < f[j].time.m
                                 \/ /\ f[i].time.m = f[j].time.m
                                    /\ f[i].time.d <= f[j].time.d
            IN Period(f[first].time.m)

ComputeRiskScoring(f, withDev) ==
    {LET g == Group(f, cif)
         c == Classify(MonthsOf(f, g), DevicesOf(f, g, withDev))
     IN [CIF |-> cif, Risk_Score |-> c.score, Risk_Label |-> c.label,
         Region |-> ModeRegion(f, g), Cohort |-> CohortOf(f, g)] :
     cif \in {f[i].cif : i \in 1..Len(f)}}

InitScoring ==
    /\ frame \in ScoreFrames
    /\ hasDev \in BOOLEAN
    /\ results = {}
    /\ cache = EmptyCache /\ ResolverIdle /\ PipelineIdle

Score ==
    /\ results = {}
    /\ results' = ComputeRiskScoring(frame, hasDev)
    /\ UNCHANGED <<resolverVars, pipelineVars, frame, hasDev>>

NextScoring == Score
SpecScoring == InitScoring /\ [][NextScoring]_vars

----------------------------------------------------------------------------
(* Claims about compute_risk_scoring, under SpecScoring. *)

\* The distinct valid months and the distinct devices of a CIF's rows, counted
\* from the frame.
ValidMonths(cif) ==
    {frame[i].time.m : i \in {j \in 1..Len(frame) :
                                 frame[j].cif = cif /\ frame[j].time.k = "ts"}}
KnownDevices(cif) ==
    {frame[i].dev : i \in {j \in 1..Len(frame) :
                              frame[j].cif = cif /\ frame[j].dev # NaNDev}}
Scored(m, d, r, score, label) ==
    (Cardinality(ValidMonths(r.CIF)) \in m /\ (~hasDev \/ Cardinality(KnownDevices(r.CIF)) \in d))
        => (r.Risk_Score = score /\ r.Risk_Label = label)
Many == 2..(MaxScoreRows + 1)

\* C3: every CIF of the frame gets one result, whose score and label are those
\* of the decision table for its (months, devices): (1,1) 1 Transient, (>1,1) 2
\* Persistent, (1,>1) 2 Multi-device, (>1,>1) 3 Critical; with no valid month it
\* is 1 Transient whatever the devices.  Without a DEVICE_ID column devices is 1.
C3_DecisionTable ==
    results # {} =>
        /\ \A i \in 1..Len(frame) :
                Cardinality({r \in results : r.CIF = frame[i].cif}) = 1
        /\ \A r \in results :
            /\ hasDev =>
                /\ Scored({1}, {1}, r, 1, "Transient")
                /\ Scored(Many, {1}, r, 2, "Persistent")
                /\ Scored({1}, Many, r, 2, "Multi-device")
                /\ Scored(Many, Many, r, 3, "Critical")
                /\ Scored({0}, 0..(MaxScoreRows + 1), r, 1, "Transient")
            /\ ~hasDev =>
                /\ Scored({0, 1}, {1}, r, 1, "Transient")
                /\ Scored(Many, {1}, r, 2, "Persistent")
\* A group with no valid month and two devices, scored 1 Transient.
C3_Witness ==
    \E r \in results :
        /\ hasDev /\ ValidMonths(r.CIF) = {} /\ Cardinality(KnownDevices(r.CIF)) = 2
        /\ r.Risk_Score = 1 /\ r.Risk_Label = "Transient"
====
